---- MODULE Spec2Model ----
(***************************************************************************)
(* Model of the `assembly` command group of click_tutorial.py: the chunked *)
(* upload generator read_file, the upload and job-creation requests, the   *)
(* status polling loop, the categories file write, and the sub-commands    *)
(* get_sentences / get_paragraphs that click runs after the group callback.*)
(*                                                                         *)
(* The remote service is the environment: every request either raises a    *)
(* transport exception or returns a response drawn from a small set.  The  *)
(* code never looks at the HTTP status code of a response, so the status   *)
(* code (ok) and the body are independent inputs.                          *)
(***************************************************************************)
EXTENDS Integers, Sequences, FiniteSets, TLC

\* ---------------------------------------------------------------- bounds
MaxLen == 3        \* longest audio file, in bytes
MaxChunk == 2      \* largest chunk size tried for CHUNK_SIZE
MaxPolls == 4      \* cap on the number of status requests of one run

\* ------------------------------------------------------------- constants
Interval == 30     \* sleep(30): seconds between two status requests

Bytes == {0, 1}
None == "None"
Urls == {"u1"}
JobIds == {"j1", "j2"}
Payloads == {"cats"}
NoFile == [name |-> None, content |-> None]
NoUpload == [received |-> FALSE, ok |-> FALSE, json |-> FALSE, upload_url |-> None]
NoTranscript == [received |-> FALSE, ok |-> FALSE, json |-> FALSE, id |-> None]
NoResponse == [json |-> FALSE, status |-> None, payload |-> None, id |-> None]

VARIABLES
    pc,               \* position of the run inside assembly / the sub-command
    err,              \* the exception that ended the run, or None
    file,             \* bytes of the file at `location`
    chunkSize,        \* CHUNK_SIZE
    pos,              \* read offset of _file
    sent,             \* chunks yielded by read_file, in order
    eof,              \* number of times read_file reached `break`
    subcommand,       \* the sub-command named on the command line
    upload_response,  \* response of the upload request
    audio_url,
    transcript_response,
    transcript_id,
    polling_response, \* last status response
    reqs,             \* requests issued so far, in order
    polls,            \* number of status requests issued
    sleeps,           \* number of completed sleep(30) calls
    nNonCompleted,    \* status responses seen by the loop test that were not 'completed'
    sawError,         \* the loop test has seen status 'error'
    completedSeen,    \* the loop test has seen status 'completed'
    aborted,          \* the except branch of the loop ran (return transcript_id)
    printed,          \* messages written to stdout
    catFile,          \* the <id>_categories.json file
    ctx_obj           \* ctx.obj of the assembly group

vars == <<pc, err, file, chunkSize, pos, sent, eof, subcommand, upload_response,
          audio_url, transcript_response, transcript_id, polling_response, reqs,
          polls, sleeps, nNonCompleted, sawError, completedSeen, aborted,
          printed, catFile, ctx_obj>>

\* ------------------------------------------------------------- helpers
Min(a, b) == IF a < b THEN a ELSE b

RECURSIVE Flatten(_)
Flatten(ss) == IF ss = <<>> THEN <<>> ELSE Head(ss) \o Flatten(Tail(ss))

SeqsUpTo(n) == UNION {[1..k -> Bytes] : k \in 0..n}

\* _file.read(n) on a regular file opened 'rb': the next n bytes, fewer at
\* the end of the file, b'' once the file is exhausted.
FileRead(f, p, n) == SubSeq(f, p + 1, Min(p + n, Len(f)))

\* responses the remote can give
\* ok: the HTTP status code is a success code; json: the body parses as JSON;
\* a field that is None is absent from the body.
UploadResponses ==
    [received : {TRUE}, ok : BOOLEAN, json : {TRUE}, upload_url : Urls \cup {None}]
    \cup [received : {TRUE}, ok : BOOLEAN, json : {FALSE}, upload_url : {None}]

TranscriptResponses ==
    [received : {TRUE}, ok : BOOLEAN, json : {TRUE}, id : JobIds \cup {None}]
    \cup [received : {TRUE}, ok : BOOLEAN, json : {FALSE}, id : {None}]

Statuses == {"queued", "processing", "completed", "error"}

PollingResponses ==
    [json : {TRUE}, status : Statuses \cup {None},
     payload : Payloads \cup {None}, id : JobIds \cup {None}]
    \cup {NoResponse}

\* print(msg, arg)
Say(msg, arg) == printed' = printed \cup {<<msg, arg>>}

\* an exception nobody catches ends the run with a traceback
Raise(e) == pc' = "crashed" /\ err' = e

Request(kind, arg) == reqs' = Append(reqs, <<kind, arg>>)

StatusReqs == {i \in 1..Len(reqs) : reqs[i][1] = "status"}
SubReqs == {i \in 1..Len(reqs) : reqs[i][1] \in {"sentences", "paragraphs"}}

\* ------------------------------------------------------------------ Init
Init ==
    /\ pc = "read"
    /\ err = None
    /\ file \in SeqsUpTo(MaxLen)
    /\ chunkSize \in 1..MaxChunk
    /\ pos = 0
    /\ sent = <<>>
    /\ eof = 0
    /\ subcommand \in {"get_sentences", "get_paragraphs"}
    /\ upload_response = NoUpload
    /\ audio_url = None
    /\ transcript_response = NoTranscript
    /\ transcript_id = None
    /\ polling_response = NoResponse
    /\ reqs = <<<<"upload", None>>>>
    /\ polls = 0
    /\ sleeps = 0
    /\ nNonCompleted = 0
    /\ sawError = FALSE
    /\ completedSeen = FALSE
    /\ aborted = FALSE
    /\ printed = {}
    /\ catFile = NoFile
    /\ ctx_obj = None

\* Variant of read_file that stops at the first short read and drops it.
ReadChunk_DropShort ==
    /\ pc = "read"
    /\ LET data == FileRead(file, pos, chunkSize) IN
         IF Len(data) < chunkSize
           THEN /\ eof' = eof + 1
                /\ pc' = "uploaded"
                /\ UNCHANGED <<pos, sent>>
           ELSE /\ sent' = Append(sent, data)
                /\ pos' = pos + Len(data)
                /\ UNCHANGED <<eof, pc>>
    /\ UNCHANGED <<err, file, chunkSize, subcommand, upload_response, audio_url,
                   transcript_response, transcript_id, polling_response, reqs,
                   polls, sleeps, nNonCompleted, sawError, completedSeen,
                   aborted, printed, catFile, ctx_obj>>

\* ------------------------------------------------- upload (lines 205-218)
\* One turn of the `while True` loop of read_file, driven by requests.post
\* iterating over the generator.
ReadChunk ==
    /\ pc = "read"
    /\ LET data == FileRead(file, pos, chunkSize) IN
         IF data = <<>>
           THEN /\ eof' = eof + 1
                /\ pc' = "uploaded"
                /\ UNCHANGED <<pos, sent>>
           ELSE /\ sent' = Append(sent, data)
                /\ pos' = pos + Len(data)
                /\ UNCHANGED <<eof, pc>>
    /\ UNCHANGED <<err, file, chunkSize, subcommand, upload_response, audio_url,
                   transcript_response, transcript_id, polling_response, reqs,
                   polls, sleeps, nNonCompleted, sawError, completedSeen,
                   aborted, printed, catFile, ctx_obj>>

\* requests.post(upload_endpoint, ...) raises: connection lost while the
\* body is streamed or while the response is awaited.
UploadFails ==
    /\ pc \in {"read", "uploaded"}
    /\ Raise("upload_transport")
    /\ UNCHANGED <<file, chunkSize, pos, sent, eof, subcommand, upload_response,
                   audio_url, transcript_response, transcript_id,
                   polling_response, reqs, polls, sleeps, nNonCompleted,
                   sawError, completedSeen, aborted, printed, catFile, ctx_obj>>

\* The upload response arrives; upload_response.json()['upload_url'] and the
\* print that follows.
UploadResponds ==
    /\ pc = "uploaded"
    /\ \E resp \in UploadResponses :
         /\ upload_response' = resp
         /\ IF ~resp.json
              THEN Raise("upload_not_json") /\ UNCHANGED <<audio_url, printed>>
              ELSE IF resp.upload_url = None
                THEN Raise("upload_url_missing") /\ UNCHANGED <<audio_url, printed>>
                ELSE /\ audio_url' = resp.upload_url
                     /\ Say("Uploaded to", resp.upload_url)
                     /\ pc' = "create"
                     /\ UNCHANGED err
    /\ UNCHANGED <<file, chunkSize, pos, sent, eof, subcommand,
                   transcript_response, transcript_id, polling_response, reqs,
                   polls, sleeps, nNonCompleted, sawError, completedSeen,
                   aborted, catFile, ctx_obj>>

\* Variant of the job creation that does not print the polling endpoint.
CreateJob_Silent ==
    /\ pc = "create"
    /\ Request("create", audio_url)
    /\ \/ /\ Raise("create_transport")
          /\ UNCHANGED <<transcript_response, transcript_id>>
       \/ \E resp \in TranscriptResponses :
            /\ transcript_response' = resp
            /\ IF ~resp.json
                 THEN Raise("create_not_json") /\ UNCHANGED transcript_id
                 ELSE IF resp.id = None
                   THEN Raise("id_missing") /\ UNCHANGED transcript_id
                   ELSE /\ transcript_id' = resp.id
                        /\ pc' = "poll0"
                        /\ UNCHANGED err
    /\ UNCHANGED <<file, chunkSize, pos, sent, eof, subcommand, upload_response,
                   audio_url, polling_response, polls, sleeps, nNonCompleted,
                   sawError, completedSeen, aborted, printed, catFile, ctx_obj>>

\* ------------------------------------------- job creation (lines 219-227)
CreateJob ==
    /\ pc = "create"
    /\ Request("create", audio_url)
    /\ \/ /\ Raise("create_transport")
          /\ UNCHANGED <<transcript_response, transcript_id, printed>>
       \/ \E resp \in TranscriptResponses :
            /\ transcript_response' = resp
            /\ IF ~resp.json
                 THEN Raise("create_not_json") /\ UNCHANGED <<transcript_id, printed>>
                 ELSE IF resp.id = None
                   THEN Raise("id_missing") /\ UNCHANGED <<transcript_id, printed>>
                   ELSE /\ transcript_id' = resp.id
                        /\ Say("Transcribing at", resp.id)
                        /\ pc' = "poll0"
                        /\ UNCHANGED err
    /\ UNCHANGED <<file, chunkSize, pos, sent, eof, subcommand, upload_response,
                   audio_url, polling_response, polls, sleeps, nNonCompleted,
                   sawError, completedSeen, aborted, catFile, ctx_obj>>

\* ---------------------------------------------- polling (lines 228-237)
\* polling_response = requests.get(polling_endpoint, ...) before the loop;
\* it is outside the try block.
InitialPoll ==
    /\ pc = "poll0"
    /\ Request("status", transcript_id)
    /\ polls' = polls + 1
    /\ \/ Raise("poll_transport") /\ UNCHANGED polling_response
       \/ \E resp \in PollingResponses :
            /\ polling_response' = resp
            /\ pc' = "while"
            /\ UNCHANGED err
    /\ UNCHANGED <<file, chunkSize, pos, sent, eof, subcommand, upload_response,
                   audio_url, transcript_response, transcript_id, sleeps,
                   nNonCompleted, sawError, completedSeen, aborted, printed,
                   catFile, ctx_obj>>

\* Variant of the loop test that goes straight to the next request.
WhileTest_NoSleep ==
    /\ pc = "while"
    /\ IF ~polling_response.json
         THEN Raise("poll_not_json")
              /\ UNCHANGED <<nNonCompleted, sawError, completedSeen>>
         ELSE IF polling_response.status = None
           THEN Raise("status_missing")
                /\ UNCHANGED <<nNonCompleted, sawError, completedSeen>>
           ELSE IF polling_response.status # "completed"
             THEN /\ pc' = IF polls < MaxPolls THEN "poll" ELSE "sleep"
                  /\ nNonCompleted' = nNonCompleted + 1
                  /\ sawError' = (sawError \/ polling_response.status = "error")
                  /\ UNCHANGED <<err, completedSeen>>
             ELSE /\ pc' = "write"
                  /\ completedSeen' = TRUE
                  /\ UNCHANGED <<err, nNonCompleted, sawError>>
    /\ UNCHANGED <<file, chunkSize, pos, sent, eof, subcommand, upload_response,
                   audio_url, transcript_response, transcript_id,
                   polling_response, reqs, polls, sleeps, aborted, printed,
                   catFile, ctx_obj>>

\* Variant of the loop test that never leaves the loop on 'completed'.
WhileTest_KeepsPolling ==
    /\ pc = "while"
    /\ IF ~polling_response.json
         THEN Raise("poll_not_json")
              /\ UNCHANGED <<nNonCompleted, sawError, completedSeen>>
         ELSE IF polling_response.status = None
           THEN Raise("status_missing")
                /\ UNCHANGED <<nNonCompleted, sawError, completedSeen>>
           ELSE /\ pc' = "sleep"
                /\ nNonCompleted' =
                     IF polling_response.status # "completed"
                       THEN nNonCompleted + 1 ELSE nNonCompleted
                /\ sawError' = (sawError \/ polling_response.status = "error")
                /\ completedSeen' =
                     (completedSeen \/ polling_response.status = "completed")
                /\ UNCHANGED err
    /\ UNCHANGED <<file, chunkSize, pos, sent, eof, subcommand, upload_response,
                   audio_url, transcript_response, transcript_id,
                   polling_response, reqs, polls, sleeps, aborted, printed,
                   catFile, ctx_obj>>

\* while polling_response.json()['status'] != 'completed':
WhileTest ==
    /\ pc = "while"
    /\ IF ~polling_response.json
         THEN Raise("poll_not_json")
              /\ UNCHANGED <<nNonCompleted, sawError, completedSeen>>
         ELSE IF polling_response.status = None
           THEN Raise("status_missing")
                /\ UNCHANGED <<nNonCompleted, sawError, completedSeen>>
           ELSE IF polling_response.status # "completed"
             THEN /\ pc' = "sleep"
                  /\ nNonCompleted' = nNonCompleted + 1
                  /\ sawError' = (sawError \/ polling_response.status = "error")
                  /\ UNCHANGED <<err, completedSeen>>
             ELSE /\ pc' = "write"
                  /\ completedSeen' = TRUE
                  /\ UNCHANGED <<err, nNonCompleted, sawError>>
    /\ UNCHANGED <<file, chunkSize, pos, sent, eof, subcommand, upload_response,
                   audio_url, transcript_response, transcript_id,
                   polling_response, reqs, polls, sleeps, aborted, printed,
                   catFile, ctx_obj>>

\* sleep(30); print("Transcript processing ...")
Sleep ==
    /\ pc = "sleep"
    /\ polls < MaxPolls
    /\ sleeps' = sleeps + 1
    /\ Say("Transcript processing ...", None)
    /\ pc' = "poll"
    /\ UNCHANGED <<err, file, chunkSize, pos, sent, eof, subcommand,
                   upload_response, audio_url, transcript_response,
                   transcript_id, polling_response, reqs, polls, nNonCompleted,
                   sawError, completedSeen, aborted, catFile, ctx_obj>>

\* Variant of the except branch that goes on with the loop after printing.
LoopPoll_Retry ==
    /\ pc = "poll"
    /\ Request("status", transcript_id)
    /\ polls' = polls + 1
    /\ \/ /\ printed' = printed \cup
                 {<<"Expected to wait 30 percent of the length of your video", None>>,
                  <<"After wait time is up, call poll with id", transcript_id>>}
          /\ aborted' = TRUE
          /\ pc' = "sleep"
          /\ UNCHANGED polling_response
       \/ \E resp \in PollingResponses :
            /\ polling_response' = resp
            /\ pc' = "while"
            /\ UNCHANGED <<aborted, printed>>
    /\ UNCHANGED <<err, file, chunkSize, pos, sent, eof, subcommand,
                   upload_response, audio_url, transcript_response,
                   transcript_id, sleeps, nNonCompleted, sawError,
                   completedSeen, catFile, ctx_obj>>

\* try: polling_response = requests.get(...)  except: print ...; return
LoopPoll ==
    /\ pc = "poll"
    /\ Request("status", transcript_id)
    /\ polls' = polls + 1
    /\ \/ /\ printed' = printed \cup
                 {<<"Expected to wait 30 percent of the length of your video", None>>,
                  <<"After wait time is up, call poll with id", transcript_id>>}
          /\ aborted' = TRUE
          /\ pc' = "returned"
          /\ UNCHANGED polling_response
       \/ \E resp \in PollingResponses :
            /\ polling_response' = resp
            /\ pc' = "while"
            /\ UNCHANGED <<aborted, printed>>
    /\ UNCHANGED <<err, file, chunkSize, pos, sent, eof, subcommand,
                   upload_response, audio_url, transcript_response,
                   transcript_id, sleeps, nNonCompleted, sawError,
                   completedSeen, catFile, ctx_obj>>

\* ------------------------------------- categories file (lines 238-242)
\* open(categories_filename, 'w') creates the file before the payload is
\* looked up; the `with` block closes it when the lookup raises.
WriteCategories ==
    /\ pc = "write"
    /\ LET name == transcript_id IN
         IF polling_response.payload = None
           THEN /\ catFile' = [name |-> name, content |-> "empty"]
                /\ Raise("payload_missing")
                /\ UNCHANGED <<printed, ctx_obj>>
           ELSE /\ catFile' = [name |-> name, content |-> polling_response.payload]
                /\ Say("Categories saved to", name)
                /\ IF polling_response.id = None
                     THEN Raise("polling_id_missing") /\ UNCHANGED ctx_obj
                     ELSE /\ ctx_obj' = polling_response.id
                          /\ pc' = "returned"
                          /\ UNCHANGED err
    /\ UNCHANGED <<file, chunkSize, pos, sent, eof, subcommand, upload_response,
                   audio_url, transcript_response, transcript_id,
                   polling_response, reqs, polls, sleeps, nNonCompleted,
                   sawError, completedSeen, aborted>>

\* Variant of the sub-commands that formats ctx.obj into the endpoint
\* instead of concatenating it, so that None does not raise.
SubCommand_Format(cmd, kind) ==
    /\ pc = "returned"
    /\ subcommand = cmd
    /\ Request(kind, ctx_obj)
    /\ \/ Raise("sub_transport")
       \/ Raise("sub_not_json")
       \/ pc' = "done" /\ UNCHANGED err
    /\ UNCHANGED <<file, chunkSize, pos, sent, eof, subcommand, upload_response,
                   audio_url, transcript_response, transcript_id,
                   polling_response, polls, sleeps, nNonCompleted, sawError,
                   completedSeen, aborted, printed, catFile, ctx_obj>>

\* -------------------------------------- sub-commands (lines 244-256)
\* click runs the sub-command named on the command line once the group
\* callback has returned, whatever it returned.  With ctx.obj still None
\* the string concatenation raises TypeError before any request is made.
SubCommand(cmd, kind) ==
    /\ pc = "returned"
    /\ subcommand = cmd
    /\ IF ctx_obj = None
         THEN Raise("TypeError") /\ UNCHANGED reqs
         ELSE /\ Request(kind, ctx_obj)
              /\ \/ Raise("sub_transport")
                 \/ Raise("sub_not_json")
                 \/ pc' = "done" /\ UNCHANGED err
    /\ UNCHANGED <<file, chunkSize, pos, sent, eof, subcommand, upload_response,
                   audio_url, transcript_response, transcript_id,
                   polling_response, polls, sleeps, nNonCompleted, sawError,
                   completedSeen, aborted, printed, catFile, ctx_obj>>

get_sentences == SubCommand("get_sentences", "sentences")

get_paragraphs == SubCommand("get_paragraphs", "paragraphs")

\* ------------------------------------------------------------------ Next
Next ==
    \/ ReadChunk
    \/ UploadFails
    \/ UploadResponds
    \/ CreateJob
    \/ InitialPoll
    \/ WhileTest
    \/ Sleep
    \/ LoopPoll
    \/ WriteCategories
    \/ get_sentences
    \/ get_paragraphs

Spec == Init /\ [][Next]_vars

\* ================================================================ claims
\* the message `m` on stdout carries the job id
Reported(id) == \E m \in printed : m[2] = id

\* a status request raised, or a status response could not be read
PollFailed ==
    \/ aborted
    \/ err \in {"poll_transport", "poll_not_json", "status_missing",
                "payload_missing", "polling_id_missing"}

CreateReqs == {i \in 1..Len(reqs) : reqs[i][1] = "create"}

SubKind == IF subcommand = "get_sentences" THEN "sentences" ELSE "paragraphs"

\* C1 (as claimed): once the loop has seen the remote report 'error', it
\* issues no further status request and the job is never afterwards seen as
\* completed.
C1_FailedStopsPolling ==
    [][sawError => (polls' = polls /\ ~completedSeen')]_vars

\* C2: after any failed poll attempt (the first status request, a later one,
\* or reading a status response) no further request is issued and the job id
\* returned by job creation has been written to stdout.
C2_AbortSurfacesJobId ==
    /\ [](PollFailed => (transcript_id \in JobIds /\ Reported(transcript_id)))
    /\ [][PollFailed => reqs' = reqs]_vars

C2_InitialPollFailed ==
    /\ err = "poll_transport"
    /\ polls = 1
    /\ transcript_id \in JobIds
    /\ Reported(transcript_id)

\* C3 (as claimed): when a 'completed' response has no iab_categories_result,
\* the run fails, no categories file exists and ctx.obj is not set.
C3_NoFileOnMissingPayload ==
    err = "payload_missing" => (catFile = NoFile /\ ctx_obj = None)

\* C4 (as claimed): an upload response with a non-success status or without
\* upload_url is never followed by a job-creation request, and a job-creation
\* response with a non-success status or without id is never followed by a
\* status request.
C4_FailedSubmissionStops ==
    /\ (upload_response.received
          /\ (~upload_response.ok \/ upload_response.upload_url = None))
           => CreateReqs = {}
    /\ (transcript_response.received
          /\ (~transcript_response.ok \/ transcript_response.id = None))
           => StatusReqs = {}

\* C5: sleeps and status requests alternate, starting with a request; when
\* the loop sees 'completed' after n other statuses it has issued n+1 status
\* requests and slept n times, and a run that leaves the callback normally
\* has written the payload of that completed response.
C5_PollsAndSleeps ==
    /\ polls = Cardinality(StatusReqs)
    /\ (pc = "poll" => sleeps = polls)
    /\ (pc # "poll" /\ polls > 0 => sleeps = polls - 1)
    /\ (polls = 0 => sleeps = 0)
    /\ (completedSeen => (polls = nNonCompleted + 1 /\ sleeps = nNonCompleted))
    /\ (pc \in {"returned", "done"} /\ ~aborted =>
           /\ completedSeen
           /\ polling_response.status = "completed"
           /\ catFile = [name |-> transcript_id,
                         content |-> polling_response.payload]
           /\ polling_response.payload \in Payloads)

C5_TwoSuspensions ==
    /\ pc = "returned"
    /\ completedSeen
    /\ nNonCompleted = 2
    /\ sleeps = 2
    /\ polls = 3
    /\ ~sawError

\* C6 (as claimed, for a deadline of one polling interval): once more time
\* than the deadline has been slept without a completed status, no further
\* status request is issued.
C6_DeadlineStopsPolling ==
    [][(sleeps * Interval > Interval /\ ~completedSeen) => polls' = polls]_vars

\* C7 (as claimed): once the loop has seen a terminal status ('completed' or
\* 'error'), no further request is issued.
C7_NoRequestAfterTerminal ==
    [][(completedSeen \/ sawError) => reqs' = reqs]_vars

\* C7 (amended): once the loop has seen 'completed', no further status
\* request is issued; the only request that follows is the one request of the
\* sub-command, and it carries the id of that completed response.
C7_NoPollAfterCompleted ==
    [][completedSeen =>
         /\ polls' = polls
         /\ \/ reqs' = reqs
            \/ /\ reqs' = Append(reqs, <<SubKind, polling_response.id>>)
               /\ SubReqs = {}]_vars

C7_SubRequestAfterCompleted ==
    /\ pc = "done"
    /\ completedSeen
    /\ Cardinality(SubReqs) = 1
    /\ nNonCompleted >= 1

\* C8: every chunk read_file yields is non-empty and no longer than the chunk
\* size, the chunks yielded so far concatenate to the bytes read so far, the
\* generator ends once, only at exhaustion, and then the chunks concatenate
\* to the whole file.
C8_ChunkedStream ==
    /\ \A i \in 1..Len(sent) : Len(sent[i]) >= 1 /\ Len(sent[i]) <= chunkSize
    /\ Flatten(sent) = SubSeq(file, 1, pos)
    /\ eof <= 1
    /\ (eof = 1 => (Flatten(sent) = file /\ pc # "read"))
    /\ (eof = 0 => pc \in {"read", "crashed"})

C8_ExactMultiple ==
    /\ eof = 1
    /\ Len(file) = 2 * chunkSize
    /\ Len(sent) = 2

\* C9: once a status request inside the loop has raised, no further request
\* is issued, the job id has been printed by the except branch, and neither
\* the categories file nor ctx.obj has been written.
C9_AbortWithoutRetry ==
    /\ [](aborted =>
            /\ <<"After wait time is up, call poll with id", transcript_id>>
                 \in printed
            /\ transcript_id \in JobIds
            /\ catFile = NoFile
            /\ ctx_obj = None)
    /\ [][aborted => (reqs' = reqs /\ polls' = polls)]_vars

C9_AbortedInLoop ==
    /\ aborted
    /\ err = "TypeError"
    /\ sleeps >= 1
    /\ polls = sleeps + 1

\* C10 (as claimed): the categories file, ctx.obj and the sub-resource
\* request exist only after 'completed' has been seen, each uses the id
\* returned by job creation, and an aborted run sends no sub-resource request.
C10_IdsEqualCreationId ==
    /\ (catFile # NoFile \/ ctx_obj # None \/ SubReqs # {}) => completedSeen
    /\ (catFile # NoFile => catFile.name = transcript_id)
    /\ (ctx_obj # None => ctx_obj = transcript_id)
    /\ (\A i \in SubReqs : reqs[i][2] = transcript_id)
    /\ (aborted => SubReqs = {})

\* C10 (amended): as claimed, except that only the file name uses the id
\* returned by job creation; ctx.obj and the sub-resource request use the id
\* field of the completed status response.
C10_OnlyAfterCompleted ==
    /\ (catFile # NoFile \/ ctx_obj # None \/ SubReqs # {}) => completedSeen
    /\ (catFile # NoFile => catFile.name = transcript_id)
    /\ (ctx_obj # None => ctx_obj = polling_response.id)
    /\ (\A i \in SubReqs : reqs[i][2] = ctx_obj /\ ctx_obj \in JobIds)
    /\ (aborted => SubReqs = {})

C10_SubRequestWithResponseId ==
    /\ completedSeen
    /\ catFile # NoFile
    /\ SubReqs # {}
    /\ ctx_obj = polling_response.id
    /\ ctx_obj # transcript_id
====
